---------------------------- MODULE Spec2Model ----------------------------
(***************************************************************************)
(* A model of the reading-plan library: the Plan cursor engine (next /     *)
(* previous / set_cyclic) and the plain text reader and writer (from_text  *)
(* / to_text) of src/src/plan.rs, and the store of plan files of           *)
(* src/src/files.rs (read_plan / add_plan / overwrite_plan / remove_plan), *)
(* and the list, next, previous and export commands of the two binaries    *)
(* (src/src/main.rs, src/src/bin/reading.rs).                              *)
(*                                                                         *)
(* Strings are sequences of one-character strings.  Machine integers keep  *)
(* the width of Rust's i32; an overflowing i32 operation panics in a build *)
(* with overflow checks (debug) and wraps in one without (release).        *)
(***************************************************************************)
EXTENDS Integers, Sequences, FiniteSets, TLC

VARIABLES
    name,           \* Plan.name
    cyclic,         \* Plan.cyclic
    current_entry,  \* Plan.current_entry (0-based)
    entries,        \* Plan.entries: a sequence of [title, description]
    checked,        \* the build has overflow checks (debug profile)
    status,         \* "ok", or "panic" once an operation has panicked
    built,          \* a Plan has been constructed (the fields above hold it)
    result,         \* the Result of the last from_text / to_text call
    sink,           \* the output sink to_text last wrote to
    dir,            \* the plans directory exists
    files,          \* the files of the plans directory: file name -> content
    outputs,        \* the files written by export: path -> content
    last            \* the last operation: what was called, on which state

vars == <<name, cyclic, current_entry, entries, checked, status,
          built, result, sink, dir, files, outputs, last>>

planVars == <<name, cyclic, current_entry, entries>>
textVars == <<built, result, sink>>
storeVars == <<dir, files, outputs>>

(***************************************************************************)
(* Bounds of the model and program constants.                              *)
(***************************************************************************)
MaxEntries == 3
MaxDelta == 7
MaxPlanLen == 2
MaxChars == 3
MaxText == 5
MaxLines == 3
MaxStored == 1
MaxOkWrites == 2
BufCap == 4
I32Max == 2147483647
I32Min == -I32Max - 1

(***************************************************************************)
(* Entry (serde_types.in.rs, plan.rs Entry::new / with_description).       *)
(***************************************************************************)
with_description(title, description) ==
    [title |-> title, description |-> description]

new(title) == with_description(title, <<>>)

(***************************************************************************)
(* i32 arithmetic.                                                         *)
(***************************************************************************)
\* a + b leaves the range of i32
AddOverflows(a, b) ==
    \/ b > 0 /\ a > I32Max - b
    \/ b < 0 /\ a < I32Min - b

\* a + b in two's complement, computed without leaving the range
WrappingAdd(a, b) ==
    IF b > 0 /\ a > I32Max - b THEN (a + I32Min) + (b + I32Min)
    ELSE IF b < 0 /\ a < I32Min - b THEN (a - I32Min) + (b - I32Min)
    ELSE a + b

\* -a leaves the range of i32 (only for i32::MIN)
NegOverflows(a) == a = I32Min

WrappingNeg(a) == IF a = I32Min THEN I32Min ELSE -a

\* Rust's % on i32 with a positive divisor: the remainder of the division
\* truncated towards zero, which has the sign of the dividend.
RustRem(a, n) ==
    IF a >= 0 THEN a % n
    ELSE IF a % n = 0 THEN 0 ELSE (a % n) - n

(***************************************************************************)
(* Plan::next, as a function of the plan's fields: the outcome is a panic  *)
(* or the new current_entry, with whether the addition overflowed.         *)
(***************************************************************************)
Panicked(ovf) == [panic |-> TRUE, overflow |-> ovf, value |-> 0]
Returned(ovf, v) == [panic |-> FALSE, overflow |-> ovf, value |-> v]

\* A variant of next_entry that forgets the upper clamp of an acyclic plan
\* (line 171: new_entry = n_entries).
next_entry_unclamped(cur, n_entries, cyc, inc, chk) ==
    LET ovf == AddOverflows(cur, inc)
        new_entry == WrappingAdd(cur, inc)
    IN  IF ovf /\ chk THEN Panicked(TRUE)
        ELSE IF new_entry < 0
             THEN IF cyc
                  THEN IF n_entries = 0 THEN Panicked(ovf)
                       ELSE Returned(ovf, RustRem(new_entry, n_entries) + n_entries)
                  ELSE Returned(ovf, 0)
        ELSE IF new_entry >= n_entries /\ cyc
             THEN IF n_entries = 0 THEN Panicked(ovf)
                  ELSE Returned(ovf, RustRem(new_entry, n_entries))
        ELSE Returned(ovf, new_entry)

next_entry(cur, n_entries, cyc, inc, chk) ==
    LET ovf == AddOverflows(cur, inc)
        new_entry == WrappingAdd(cur, inc)
    IN  IF ovf /\ chk THEN Panicked(TRUE)
        ELSE IF new_entry < 0
             THEN IF cyc
                  THEN IF n_entries = 0 THEN Panicked(ovf)
                       ELSE Returned(ovf, RustRem(new_entry, n_entries) + n_entries)
                  ELSE Returned(ovf, 0)
        ELSE IF new_entry >= n_entries
             THEN IF cyc
                  THEN IF n_entries = 0 THEN Panicked(ovf)
                       ELSE Returned(ovf, RustRem(new_entry, n_entries))
                  ELSE Returned(ovf, n_entries)
        ELSE Returned(ovf, new_entry)

\* A variant of previous_entry that forgets the negation (line 184:
\* self.next(dec)).
previous_entry_forward(cur, n_entries, cyc, dec, chk) ==
    next_entry(cur, n_entries, cyc, dec, chk)

\* Plan::previous: next(-dec), where the negation is an i32 operation too
previous_entry(cur, n_entries, cyc, dec, chk) ==
    IF NegOverflows(dec) /\ chk THEN Panicked(TRUE)
    ELSE LET r == next_entry(cur, n_entries, cyc, WrappingNeg(dec), chk)
         IN  [r EXCEPT !.overflow = r.overflow \/ NegOverflows(dec)]

(***************************************************************************)
(* Observers.                                                              *)
(***************************************************************************)
len == Len(entries)
current_entry_number == current_entry + 1

\* A variant of is_ended that already reports the last entry as the end
\* (line 222 with >= for >).
is_ended_at_last == current_entry_number >= len

is_ended == current_entry_number > len
is_cyclic == cyclic

\* A variant of current_entry_ref that looks one entry too far.
current_entry_ref_next ==
    IF current_entry + 1 < Len(entries) THEN <<entries[current_entry + 2]>> ELSE <<>>

\* Plan::current_entry, entries.get(current_entry): <<>> for None, <<e>> for
\* Some(e); the 0-based index i of the Vec is index i + 1 of the sequence
current_entry_ref ==
    IF current_entry < Len(entries) THEN <<entries[current_entry + 1]>> ELSE <<>>

(***************************************************************************)
(* Plan::from_entries: the plan it returns.  It accepts any entry list.    *)
(***************************************************************************)
\* A variant of from_entries that starts the plan in cyclic mode.
from_entries_cyclic(nm, es) ==
    [name |-> nm, cyclic |-> TRUE, current_entry |-> 0, entries |-> es]

from_entries(nm, es) ==
    [name |-> nm, cyclic |-> FALSE, current_entry |-> 0, entries |-> es]

\* the model's plan is p
\* no plans directory yet (nothing has been stored on this machine)
NoStore == dir = FALSE /\ files = <<>> /\ outputs = <<>>

PlanIs(p) ==
    /\ name = p.name
    /\ cyclic = p.cyclic
    /\ current_entry = p.current_entry
    /\ entries = p.entries

\* the operation returns p, which becomes the model's plan
PlanBecomes(p) ==
    /\ name' = p.name
    /\ cyclic' = p.cyclic
    /\ current_entry' = p.current_entry
    /\ entries' = p.entries

NoSink == [bytes |-> <<>>, failed |-> FALSE, written |-> <<>>, used |-> FALSE]

(***************************************************************************)
(* The cursor machine: a plan built by from_entries, then any sequence of  *)
(* next, previous and set_cyclic.                                          *)
(***************************************************************************)
Deltas == (-MaxDelta .. MaxDelta) \cup {I32Min, I32Min + 1, I32Max - 1, I32Max}

Called(op, arg, r) ==
    [op |-> op, arg |-> arg, pre |-> current_entry, pre_cyclic |-> cyclic,
     overflow |-> r.overflow, panic |-> r.panic]

Init ==
    /\ \E n \in 0 .. MaxEntries :
          PlanIs(from_entries("test", [i \in 1 .. n |-> new([j \in 1 .. i |-> "e"])]))
    /\ checked \in BOOLEAN
    /\ status = "ok"
    /\ built = TRUE
    /\ result = [kind |-> "Ok"]
    /\ sink = NoSink
    /\ NoStore
    /\ last = [op |-> "from_entries", arg |-> 0, pre |-> 0, pre_cyclic |-> FALSE,
               overflow |-> FALSE, panic |-> FALSE]

\* A variant of Apply in which moving the position also leaves cyclic mode.
Apply_leaving_cycle(op, arg, r) ==
    /\ last' = Called(op, arg, r)
    /\ IF r.panic
       THEN /\ status' = "panic"
            /\ UNCHANGED current_entry
       ELSE /\ current_entry' = r.value
            /\ UNCHANGED status
    /\ cyclic' = FALSE
    /\ UNCHANGED <<name, entries, checked, textVars, storeVars>>

\* the effect of next and previous on the plan: a panic leaves it as it
\* was, a return stores the new position; no other field is written
Apply(op, arg, r) ==
    /\ last' = Called(op, arg, r)
    /\ IF r.panic
       THEN /\ status' = "panic"
            /\ UNCHANGED current_entry
       ELSE /\ current_entry' = r.value
            /\ UNCHANGED status
    /\ UNCHANGED <<name, cyclic, entries, checked, textVars, storeVars>>

PlanNext(inc) ==
    /\ status = "ok"
    /\ Apply("next", inc, next_entry(current_entry, len, cyclic, inc, checked))

PlanPrevious(dec) ==
    /\ status = "ok"
    /\ Apply("previous", dec, previous_entry(current_entry, len, cyclic, dec, checked))

\* A variant of set_cyclic_entry that resets an ended plan whatever the new
\* mode is (line 203 without self.cyclic &&).
set_cyclic_entry_always(cur, n_entries, cyc) ==
    IF cur = n_entries THEN 0 ELSE cur

set_cyclic_entry(cur, n_entries, cyc) ==
    IF cyc /\ cur = n_entries THEN 0 ELSE cur

PlanSetCyclic(c) ==
    /\ status = "ok"
    /\ cyclic' = c
    /\ current_entry' = set_cyclic_entry(current_entry, len, c)
    /\ last' = [op |-> "set_cyclic", arg |-> IF c THEN 1 ELSE 0,
                pre |-> current_entry, pre_cyclic |-> cyclic,
                overflow |-> FALSE, panic |-> FALSE]
    /\ UNCHANGED <<name, entries, checked, status, textVars, storeVars>>

Next ==
    \/ \E inc \in Deltas : PlanNext(inc)
    \/ \E dec \in Deltas : PlanPrevious(dec)
    \/ \E c \in BOOLEAN : PlanSetCyclic(c)

Spec == Init /\ [][Next]_vars

(***************************************************************************)
(* Text.  A string is a sequence of characters; the alphabet has a letter, *)
(* the two kinds of indentation and the line feed.  (A carriage return is  *)
(* White_Space too: lines() or trim_right removes it at the end of a line  *)
(* and it indents at the start, as a tab does.)                            *)
(***************************************************************************)
A == "a"
SP == " "
TAB == "\t"
NL == "\n"
Chars == {A, SP, TAB, NL}

\* A variant of is_whitespace that does not know the tab.
is_whitespace_no_tab(c) == c \in {SP, NL}

\* char::is_whitespace
is_whitespace(c) == c \in {SP, TAB, NL}

Strs(n) == UNION {[1 .. k -> Chars] : k \in 0 .. n}

\* A variant of trim_right that removes one whitespace character at most.
trim_right_one(l) ==
    IF l # <<>> /\ is_whitespace(l[Len(l)]) THEN SubSeq(l, 1, Len(l) - 1) ELSE l

\* Variants of the trimming functions that trim nothing.
trim_right_none(l) == l
trim_left_none(l) == l

RECURSIVE trim_right(_)
trim_right(l) ==
    IF l = <<>> THEN <<>>
    ELSE IF is_whitespace(l[Len(l)]) THEN trim_right(SubSeq(l, 1, Len(l) - 1))
    ELSE l

RECURSIVE trim_left(_)
trim_left(l) ==
    IF l = <<>> THEN <<>>
    ELSE IF is_whitespace(l[1]) THEN trim_left(Tail(l))
    ELSE l

\* BufRead::lines: the text cut at every line feed, the line feeds dropped;
\* text after the last line feed is a line too, unless it is empty
RECURSIVE lines(_)
lines(t) ==
    IF t = <<>> THEN <<>>
    ELSE IF \E i \in 1 .. Len(t) : t[i] = NL
         THEN LET i == CHOOSE i \in 1 .. Len(t) :
                          t[i] = NL /\ \A j \in 1 .. (i - 1) : t[j] # NL
              IN  <<SubSeq(t, 1, i - 1)>> \o lines(SubSeq(t, i + 1, Len(t)))
         ELSE <<t>>

(***************************************************************************)
(* Plan::from_text.  The loop over the lines carries the entries pushed so *)
(* far and the entry in progress: <<>> for None, <<e>> for Some(e).        *)
(***************************************************************************)
Ok(es) == [kind |-> "Ok", entries |-> es, line |-> 0]
\* A variant of TextFormat that is handed the 0-based line number.
TextFormat_zero_based(n) ==
    [kind |-> "TextFormat", entries |-> <<>>, line |-> n - 1]

TextFormat(n) == [kind |-> "TextFormat", entries |-> <<>>, line |-> n]

\* A variant of from_text_loop in which a blank line drops the entry in
\* progress instead of pushing it (lines 82-84 without the push).
RECURSIVE from_text_loop_blank_drops(_, _, _, _)
from_text_loop_blank_drops(ls, n, es, cur) ==
    IF ls = <<>>
    THEN IF es \o cur = <<>> THEN TextFormat(0) ELSE Ok(es \o cur)
    ELSE LET l == trim_right(Head(ls)) IN
         IF l = <<>>
         THEN from_text_loop_blank_drops(Tail(ls), n + 1, es, <<>>)
         ELSE IF is_whitespace(l[1])
         THEN IF cur = <<>>
              THEN TextFormat(n + 1)
              ELSE LET e == cur[1]
                       d == IF e.description # <<>>
                            THEN e.description \o <<SP>> \o trim_left(l)
                            ELSE trim_left(l)
                   IN  from_text_loop_blank_drops(Tail(ls), n + 1, es,
                                                  <<[e EXCEPT !.description = d]>>)
         ELSE from_text_loop_blank_drops(Tail(ls), n + 1, es \o cur, <<new(l)>>)

\* A variant of from_text_loop in which a blank line is skipped and the
\* entry in progress stays open (lines 81-87 as a bare continue).
RECURSIVE from_text_loop_blank_skipped(_, _, _, _)
from_text_loop_blank_skipped(ls, n, es, cur) ==
    IF ls = <<>>
    THEN IF es \o cur = <<>> THEN TextFormat(0) ELSE Ok(es \o cur)
    ELSE LET l == trim_right(Head(ls)) IN
         IF l = <<>>
         THEN from_text_loop_blank_skipped(Tail(ls), n + 1, es, cur)
         ELSE IF is_whitespace(l[1])
         THEN IF cur = <<>>
              THEN TextFormat(n + 1)
              ELSE LET e == cur[1]
                       d == IF e.description # <<>>
                            THEN e.description \o <<SP>> \o trim_left(l)
                            ELSE trim_left(l)
                   IN  from_text_loop_blank_skipped(Tail(ls), n + 1, es,
                                                    <<[e EXCEPT !.description = d]>>)
         ELSE from_text_loop_blank_skipped(Tail(ls), n + 1, es \o cur, <<new(l)>>)

RECURSIVE from_text_loop(_, _, _, _)
from_text_loop(ls, n, es, cur) ==
    IF ls = <<>>
    THEN \* lines 121-130: push the entry left over, refuse an empty plan
         IF es \o cur = <<>> THEN TextFormat(0) ELSE Ok(es \o cur)
    ELSE LET l == trim_right(Head(ls)) IN
         IF l = <<>>
         THEN from_text_loop(Tail(ls), n + 1, es \o cur, <<>>)
         ELSE IF is_whitespace(l[1])
         THEN IF cur = <<>>
              THEN TextFormat(n + 1)
              ELSE LET e == cur[1]
                       d == IF e.description # <<>>
                            THEN e.description \o <<SP>> \o trim_left(l)
                            ELSE trim_left(l)
                   IN  from_text_loop(Tail(ls), n + 1, es,
                                      <<[e EXCEPT !.description = d]>>)
         ELSE from_text_loop(Tail(ls), n + 1, es \o cur, <<new(l)>>)

from_text(input) == from_text_loop(lines(input), 0, <<>>, <<>>)

(***************************************************************************)
(* The sink of to_text and the BufWriter around it.  A sink accepts a      *)
(* write whole or fails it; an unhealthy sink accepts `budget` writes and  *)
(* fails every later one.  BufCap stands for the capacity of the BufWriter *)
(* (std's default, scaled down with the texts of the model).               *)
(***************************************************************************)
\* inner.write(data): s.ok tells whether this call succeeded
SinkWrite(s, data) ==
    IF s.healthy \/ s.budget > 0
    THEN [s EXCEPT !.bytes = @ \o data,
                   !.budget = IF s.healthy THEN @ ELSE @ - 1,
                   !.ok = TRUE]
    ELSE [s EXCEPT !.ok = FALSE, !.failed = TRUE]

\* BufWriter::flush_buf: an empty buffer costs no write
FlushBuf(w) ==
    IF w.buf = <<>> THEN [w EXCEPT !.ok = TRUE]
    ELSE LET s == SinkWrite(w.inner, w.buf)
         IN  [buf |-> IF s.ok THEN <<>> ELSE w.buf, inner |-> s, ok |-> s.ok]

\* BufWriter::write (through write_all): w.ok tells whether it succeeded
BufWrite(w, data) ==
    LET w1 == IF Len(w.buf) + Len(data) > BufCap THEN FlushBuf(w)
              ELSE [w EXCEPT !.ok = TRUE]
    IN  IF ~w1.ok THEN w1
        ELSE IF Len(data) >= BufCap
        THEN LET s == SinkWrite(w1.inner, data)
             IN  [w1 EXCEPT !.inner = s, !.ok = s.ok]
        ELSE [w1 EXCEPT !.buf = @ \o data]

\* the pieces writeln! hands to the writer for one entry (lines 140-143)
\* A variant of Indent of two spaces.
Indent_two == <<SP, SP>>

Indent == <<SP, SP, SP, SP>>

\* A variant of entry_writes that writes the description without its
\* indentation (line 142: "    {}").
entry_writes_unindented(e) ==
    <<e.title, <<NL>>>>
    \o (IF e.description # <<>> THEN <<e.description, <<NL>>>> ELSE <<>>)

entry_writes(e) ==
    <<e.title, <<NL>>>>
    \o (IF e.description # <<>> THEN <<Indent, e.description, <<NL>>>> ELSE <<>>)

\* A variant of plan_writes that writes the last entry first.
RECURSIVE plan_writes_last_first(_)
plan_writes_last_first(es) ==
    IF es = <<>> THEN <<>>
    ELSE plan_writes_last_first(Tail(es)) \o entry_writes(Head(es))

\* the loop of lines 138-144 over the entries
RECURSIVE plan_writes(_)
plan_writes(es) ==
    IF es = <<>> THEN <<>> ELSE entry_writes(Head(es)) \o plan_writes(Tail(es))

\* the writes in order, stopping at the first that fails (the ? operator)
RECURSIVE write_all(_, _)
write_all(w, pieces) ==
    IF pieces = <<>> \/ ~w.ok THEN w
    ELSE write_all(BufWrite(w, Head(pieces)), Tail(pieces))

\* Plan::to_text on a fresh sink: the Result, and the sink once the
\* BufWriter has been dropped (drop flushes the buffer and ignores the
\* outcome)
to_text(es, healthy, budget) ==
    LET w0 == [buf |-> <<>>, ok |-> TRUE,
               inner |-> [bytes |-> <<>>, healthy |-> healthy, budget |-> budget,
                          ok |-> TRUE, failed |-> FALSE]]
        w == write_all(w0, plan_writes(es))
        dropped == FlushBuf(w)
    IN  [kind |-> IF w.ok THEN "Ok" ELSE "Io",
         bytes |-> dropped.inner.bytes,
         failed |-> dropped.inner.failed]

(***************************************************************************)
(* The text machine: a plan is constructed by from_entries or by from_text *)
(* from an input text, written with to_text, and what the sink holds is    *)
(* read back with from_text.                                               *)
(***************************************************************************)
Texts == Strs(MaxText)

\* longer input texts, put together from whole lines: a blank line, title
\* lines and description lines of different indentation
LineShapes ==
    {<<>>, <<SP, SP>>, <<A>>, <<A, SP>>, <<SP, A>>, <<TAB, A>>, <<SP, TAB, A, A, SP>>}

RECURSIVE JoinLines(_)
JoinLines(ls) ==
    IF ls = <<>> THEN <<>>
    ELSE IF Len(ls) = 1 THEN ls[1]
    ELSE ls[1] \o <<NL>> \o JoinLines(Tail(ls))

\* the names a caller gives a plan
Names == {"test", "War and Peace"}

\* the ways to cut a string of n characters into m consecutive parts (empty
\* parts allowed): the ends of the first m - 1 parts
Cuts(n, m) ==
    {f \in [1 .. (m - 1) -> 0 .. n] : \A i \in 1 .. (m - 2) : f[i] <= f[i + 1]}

\* the k entries whose titles and descriptions are, in order, the 2k parts
\* of str cut at f
EntriesOf(str, f, k) ==
    LET end(i) == IF i = 0 THEN 0 ELSE IF i = 2 * k THEN Len(str) ELSE f[i]
        part(i) == SubSeq(str, end(i - 1) + 1, end(i))
    IN  [i \in 1 .. k |-> with_description(part(2 * i - 1), part(2 * i))]

InitText ==
    /\ PlanIs(from_entries("", <<>>))
    /\ built = FALSE
    /\ checked = TRUE      \* reading and writing text do no i32 arithmetic
    /\ status = "ok"
    /\ result = [kind |-> "None"]
    /\ sink = NoSink
    /\ NoStore
    /\ last = [op |-> "start", input |-> <<>>, name |-> "", origin |-> "start"]

\* Plan::from_entries(nm, es)
FromEntries(nm, es) ==
    /\ PlanBecomes(from_entries(nm, es))
    /\ built' = TRUE
    /\ result' = [kind |-> "Ok"]
    /\ last' = [op |-> "from_entries", input |-> <<>>, name |-> nm,
                origin |-> "from_entries"]
    /\ UNCHANGED <<checked, status, sink, storeVars>>

\* Plan::from_text(nm, input): a plan on Ok, none on Err; last.origin keeps
\* the constructor that made the plan at hand
ReadText(op, nm, input) ==
    LET r == from_text(input)
    IN  /\ result' = [kind |-> r.kind, line |-> r.line]
        /\ last' = [op |-> op, input |-> input, name |-> nm,
                    origin |-> IF op = "from_text" THEN op ELSE last.origin]
        /\ IF r.kind = "Ok"
           THEN PlanBecomes(from_entries(nm, r.entries)) /\ built' = TRUE
           ELSE UNCHANGED <<planVars, built>>
        /\ UNCHANGED <<checked, status, sink, storeVars>>

FromText(nm, input) == ReadText("from_text", nm, input)

\* the first call constructs the plan: from an entry list of at most
\* MaxPlanLen entries holding at most MaxChars characters in all, or from a
\* text of at most MaxText characters or of at most MaxLines whole lines
Construct ==
    /\ last.op = "start"
    /\ \E nm \in Names :
          \/ \E k \in 0 .. MaxPlanLen, n \in 0 .. MaxChars :
                \E str \in [1 .. n -> Chars], f \in Cuts(n, 2 * k) :
                   FromEntries(nm, EntriesOf(str, f, k))
          \/ \E t \in Texts : FromText(nm, t)
          \/ \E k \in 1 .. MaxLines :
                \E ls \in [1 .. k -> LineShapes] : FromText(nm, JoinLines(ls))

\* plan.to_text(sink): to_text takes the sink by value, so the one sink of
\* the model is written once
ToText(healthy, budget) ==
    /\ built
    /\ ~sink.used
    /\ LET r == to_text(entries, healthy, budget)
       IN  /\ result' = [kind |-> r.kind]
           /\ sink' = [bytes |-> r.bytes, failed |-> r.failed,
                       written |-> entries, used |-> TRUE]
    /\ last' = [op |-> "to_text", input |-> <<>>, name |-> name,
                origin |-> last.origin]
    /\ UNCHANGED <<planVars, built, checked, status, storeVars>>

\* Plan::from_text on what to_text has just put into the sink
ReadBack ==
    /\ last.op = "to_text"
    /\ ReadText("read_back", name, sink.bytes)

NextText ==
    \/ Construct
    \/ ToText(TRUE, 0)
    \/ \E budget \in 0 .. MaxOkWrites : ToText(FALSE, budget)
    \/ ReadBack

SpecText == InitText /\ [][NextText]_vars

(***************************************************************************)
(* The store of plan files (files.rs).  The plans directory exists or not; *)
(* the file of a plan is named after the plan and holds the plan as a JSON *)
(* object.  Plan names here are sequences of characters without a path     *)
(* separator, so that PathBuf::push adds one component; the directory is   *)
(* written by this program only, and the file system does not fail.        *)
(***************************************************************************)
DOT == "."

\* the position of the last '.' of a file name, 0 if it has none
LastDot(s) ==
    IF \E i \in 1 .. Len(s) : s[i] = DOT
    THEN CHOOSE i \in 1 .. Len(s) :
             s[i] = DOT /\ \A j \in (i + 1) .. Len(s) : s[j] # DOT
    ELSE 0

\* Path::file_stem: the file name up to its last '.', or all of it if it
\* has no '.' or only one in the first place
file_stem(s) == IF LastDot(s) <= 1 THEN s ELSE SubSeq(s, 1, LastDot(s) - 1)

\* filename.push(name); filename.set_extension("plan.json"): the extension
\* replaces whatever follows the last '.' of the name
plan_file(nm) == file_stem(nm) \o <<DOT, "plan", DOT, "json">>

\* serde_json::to_writer of the derived Serialize: an object with one
\* member for each field, in the order of the struct
Member(k, v) == [key |-> k, value |-> v]

entry_to_json(e) ==
    <<Member("title", e.title), Member("description", e.description)>>

to_json(p) ==
    <<Member("name", p.name),
      Member("cyclic", p.cyclic),
      Member("current_entry", p.current_entry),
      Member("entries", [i \in 1 .. Len(p.entries) |-> entry_to_json(p.entries[i])])>>

\* serde_json::from_reader of the derived Deserialize: each field is taken
\* from the member of its name
MemberOf(doc, k) == doc[CHOOSE i \in DOMAIN doc : doc[i].key = k].value

entry_from_json(doc) ==
    [title |-> MemberOf(doc, "title"), description |-> MemberOf(doc, "description")]

from_json(doc) ==
    LET es == MemberOf(doc, "entries") IN
    [name |-> MemberOf(doc, "name"),
     cyclic |-> MemberOf(doc, "cyclic"),
     current_entry |-> MemberOf(doc, "current_entry"),
     entries |-> [i \in 1 .. Len(es) |-> entry_from_json(es[i])]]

\* File::create(f) and the write of doc; fs::remove_file(f)
Put(fs, f, doc) == [g \in DOMAIN fs \cup {f} |-> IF g = f THEN doc ELSE fs[g]]
Delete(fs, f) == [g \in DOMAIN fs \ {f} |-> fs[g]]

\* the outcome of a store function: the kind of its Result, the plan it
\* returns if any, and the directory after it
Outcome(k, d, fs) == [kind |-> k, dir |-> d, files |-> fs]

read_plan(d, fs, nm) ==
    IF ~d THEN [kind |-> "NoConfigDirectory"]
    ELSE IF plan_file(nm) \notin DOMAIN fs THEN [kind |-> "PlanDoesNotExist"]
    ELSE [kind |-> "Ok", plan |-> from_json(fs[plan_file(nm)])]

\* A variant of add_plan without the test of line 142.
add_plan_unguarded(d, fs, p) ==
    Outcome("Ok", TRUE, Put(fs, plan_file(p.name), to_json(p)))

\* plans_dir_ensure creates the directory before anything else
add_plan(d, fs, p) ==
    IF plan_file(p.name) \in DOMAIN fs
    THEN Outcome("PlanAlreadyExists", TRUE, fs)
    ELSE Outcome("Ok", TRUE, Put(fs, plan_file(p.name), to_json(p)))

overwrite_plan(d, fs, p) ==
    Outcome("Ok", TRUE, Put(fs, plan_file(p.name), to_json(p)))

remove_plan(d, fs, nm) ==
    IF ~d THEN Outcome("NoConfigDirectory", d, fs)
    ELSE IF plan_file(nm) \notin DOMAIN fs THEN Outcome("PlanDoesNotExist", d, fs)
    ELSE Outcome("Ok", d, Delete(fs, plan_file(nm)))

(***************************************************************************)
(* The store machine: any sequence of add_plan, overwrite_plan, read_plan  *)
(* and remove_plan, on plans of three names: "a", "a.b" and ".b".  The     *)
(* plan variables hold the plan in the caller's hands: the one handed to   *)
(* add_plan or overwrite_plan, or the one read_plan returned.              *)
(***************************************************************************)
StoreNames == {<<A>>, <<A, DOT, "b">>, <<DOT, "b">>}

\* the plans handed to the store: of 1 .. MaxStored entries, at any
\* position from the first entry to the end of the plan
StorePlans ==
    LET plans == {[name |-> nm, cyclic |-> c, current_entry |-> k,
                   entries |-> [i \in 1 .. n |-> new([j \in 1 .. i |-> "e"])]] :
                     nm \in StoreNames, c \in BOOLEAN,
                     n \in 1 .. MaxStored, k \in 0 .. MaxStored}
    IN  {p \in plans : p.current_entry <= Len(p.entries)}

ThePlan ==
    [name |-> name, cyclic |-> cyclic, current_entry |-> current_entry,
     entries |-> entries]

InitFiles ==
    /\ PlanIs(from_entries(<<>>, <<>>))
    /\ built = FALSE
    /\ checked = TRUE
    /\ status = "ok"
    /\ result = [kind |-> "None"]
    /\ sink = NoSink
    /\ NoStore
    /\ last = [op |-> "start", name |-> <<>>]

\* a store function that takes a plan: add_plan(&p) or overwrite_plan(&p)
Store(op, p, r) ==
    /\ PlanBecomes(p)
    /\ built' = TRUE
    /\ dir' = r.dir
    /\ files' = r.files
    /\ result' = [kind |-> r.kind]
    /\ last' = [op |-> op, name |-> p.name]
    /\ UNCHANGED <<checked, status, sink, outputs>>

AddPlan(p) == Store("add_plan", p, add_plan(dir, files, p))

OverwritePlan(p) == Store("overwrite_plan", p, overwrite_plan(dir, files, p))

ReadPlan(nm) ==
    LET r == read_plan(dir, files, nm)
    IN  /\ result' = [kind |-> r.kind]
        /\ last' = [op |-> "read_plan", name |-> nm]
        /\ IF r.kind = "Ok"
           THEN PlanBecomes(r.plan) /\ built' = TRUE
           ELSE UNCHANGED <<planVars, built>>
        /\ UNCHANGED <<checked, status, sink, storeVars>>

RemovePlan(nm) ==
    LET r == remove_plan(dir, files, nm)
    IN  /\ dir' = r.dir
        /\ files' = r.files
        /\ result' = [kind |-> r.kind]
        /\ last' = [op |-> "remove_plan", name |-> nm]
        /\ UNCHANGED <<planVars, built, checked, status, sink, outputs>>

NextFiles ==
    \/ \E p \in StorePlans : AddPlan(p)
    \/ \E p \in StorePlans : OverwritePlan(p)
    \/ \E nm \in StoreNames : ReadPlan(nm)
    \/ \E nm \in StoreNames : RemovePlan(nm)

SpecFiles == InitFiles /\ [][NextFiles]_vars

(***************************************************************************)
(* The commands of the binaries.  Each command is a process of its own: it *)
(* reads the store, acts, and ends with a result: "Ok", an error, or a     *)
(* panic.  Of what a command prints, the model keeps the status lines of   *)
(* list only.  The two binaries differ in how they report an error (main   *)
(* returns it from run, bin/reading prints it and returns); the model      *)
(* keeps the error and not the way it is reported.                         *)
(***************************************************************************)
Digits == <<"0", "1", "2", "3", "4", "5", "6", "7", "8", "9">>
IsDigit(c) == \E d \in 1 .. Len(Digits) : Digits[d] = c
DigitOf(c) == (CHOOSE d \in 1 .. Len(Digits) : Digits[d] = c) - 1

\* i32::from_str on the digits after the sign: the value is built digit by
\* digit, towards the sign, and a step that leaves i32 is an error.  m is
\* the magnitude read so far.
RECURSIVE parse_digits(_, _, _)
parse_digits(s, m, neg) ==
    IF s = <<>> THEN [ok |-> TRUE, value |-> IF neg THEN -m ELSE m]
    ELSE IF ~IsDigit(Head(s)) THEN [ok |-> FALSE, value |-> 0]
    ELSE LET d == DigitOf(Head(s)) IN
         IF neg /\ m = I32Max \div 10 /\ d = 8 /\ Len(s) = 1
         THEN [ok |-> TRUE, value |-> I32Min]
         ELSE IF m > (I32Max - d) \div 10 THEN [ok |-> FALSE, value |-> 0]
         ELSE parse_digits(Tail(s), m * 10 + d, neg)

\* value_of("count").parse::<i32>()
parse_i32(s) ==
    IF s = <<>> THEN [ok |-> FALSE, value |-> 0]
    ELSE IF Head(s) \in {"-", "+"}
         THEN IF Tail(s) = <<>> THEN [ok |-> FALSE, value |-> 0]
              ELSE parse_digits(Tail(s), 0, Head(s) = "-")
    ELSE parse_digits(s, 0, FALSE)

\* what a command leaves behind: its result, the store, the exported files
\* and the plan it ended with (the empty plan if it had none)
Ended(k, d, fs, outs, p) ==
    [kind |-> k, dir |-> d, files |-> fs, outputs |-> outs, plan |-> p]

NoPlan == from_entries(<<>>, <<>>)

\* A variant of cli_next that saves the plan without the cyclic flag.
cli_next_acyclic(d, fs, outs, nm, arg, forward, chk) ==
    LET count == parse_i32(arg)
        r == read_plan(d, fs, nm)
    IN  IF ~count.ok THEN Ended("InvalidCount", d, fs, outs, NoPlan)
        ELSE IF r.kind # "Ok" THEN Ended(r.kind, d, fs, outs, NoPlan)
        ELSE LET plan == r.plan
                 m == IF forward
                      THEN next_entry(plan.current_entry, Len(plan.entries),
                                      plan.cyclic, count.value, chk)
                      ELSE previous_entry(plan.current_entry, Len(plan.entries),
                                          plan.cyclic, count.value, chk)
             IN  IF m.panic THEN Ended("Panic", d, fs, outs, plan)
                 ELSE LET moved == [plan EXCEPT !.current_entry = m.value,
                                                !.cyclic = FALSE]
                          w == overwrite_plan(d, fs, moved)
                      IN  Ended(w.kind, w.dir, w.files, outs, moved)

\* the next and previous commands (main.rs 372-405, bin/reading.rs 381-432)
cli_next(d, fs, outs, nm, arg, forward, chk) ==
    LET count == parse_i32(arg)
        r == read_plan(d, fs, nm)
    IN  IF ~count.ok THEN Ended("InvalidCount", d, fs, outs, NoPlan)
        ELSE IF r.kind # "Ok" THEN Ended(r.kind, d, fs, outs, NoPlan)
        ELSE LET plan == r.plan
                 m == IF forward
                      THEN next_entry(plan.current_entry, Len(plan.entries),
                                      plan.cyclic, count.value, chk)
                      ELSE previous_entry(plan.current_entry, Len(plan.entries),
                                          plan.cyclic, count.value, chk)
             IN  IF m.panic THEN Ended("Panic", d, fs, outs, plan)
                 ELSE LET moved == [plan EXCEPT !.current_entry = m.value]
                          w == overwrite_plan(d, fs, moved)
                      IN  Ended(w.kind, w.dir, w.files, outs, moved)

\* the status line of a plan, from (name, current_entry_number, len)
status_line(nm, current, n) ==
    IF current > n
    THEN <<nm, "(end of plan)">>
    ELSE <<nm, "(entry " \o ToString(current) \o " of " \o ToString(n) \o ")">>

\* files::plans(): the plans of the directory, in the order ord in which
\* read_dir yields its files
plans(fs, ord) == [i \in 1 .. Len(ord) |-> from_json(fs[ord[i]])]

RECURSIVE list_main_lines(_)
list_main_lines(ps) ==
    IF ps = <<>> THEN <<>>
    ELSE LET p == Head(ps)
             current == p.current_entry + 1
             n == Len(p.entries)
         IN  (IF current > n
              THEN <<status_line(p.name, current, n)>>
              ELSE <<status_line(p.name, current, n), status_line(p.name, current, n)>>)
             \o list_main_lines(Tail(ps))

\* the list command of main.rs (273-332): without a plans directory it
\* prints a hint and no status line
list_main(d, fs, ord) == IF ~d THEN <<>> ELSE list_main_lines(plans(fs, ord))

\* the list command of bin/reading.rs (272-326)
list_reading(d, fs, ord) ==
    IF ~d THEN <<>>
    ELSE LET ps == plans(fs, ord) IN
         [i \in 1 .. Len(ps) |->
             status_line(ps[i].name, ps[i].current_entry + 1, Len(ps[i].entries))]

\* the path export writes to: the --output argument (<<path>>) or, without
\* one (<<>>), the name of the plan followed by ".plan"
output_path(plan, out) == IF out # <<>> THEN out[1] ELSE plan.name \o <<DOT, "plan">>

\* A variant of export without the test of path.exists().
export_overwriting(d, fs, outs, nm, out) ==
    LET r == read_plan(d, fs, nm) IN
    IF r.kind # "Ok" THEN Ended(r.kind, d, fs, outs, NoPlan)
    ELSE LET path == output_path(r.plan, out)
             t == to_text(r.plan.entries, TRUE, 0)
         IN  Ended(t.kind, d, fs, Put(outs, path, t.bytes), r.plan)

\* the export command (main.rs 245-270, bin/reading.rs 221-269), writing
\* to a file system that takes every write
export(d, fs, outs, nm, out) ==
    LET r == read_plan(d, fs, nm) IN
    IF r.kind # "Ok" THEN Ended(r.kind, d, fs, outs, NoPlan)
    ELSE LET path == output_path(r.plan, out)
             t == to_text(r.plan.entries, TRUE, 0)
         IN  IF path \in DOMAIN outs
             THEN Ended("OutputExists", d, fs, outs, r.plan)
             ELSE Ended(t.kind, d, fs, Put(outs, path, t.bytes), r.plan)

(***************************************************************************)
(* The command machines: a store as add_plan, next and previous can have   *)
(* left it, then any sequence of list, next and previous commands          *)
(* (SpecCli) or of export commands (SpecExport), which read the store and  *)
(* write outside of it.                                                    *)
(***************************************************************************)
\* the plans of the store: of 1 .. MaxStored entries, the first one titled
\* with the name of the plan, so that different plans have different texts
CliPlans ==
    LET plans_of == {[name |-> nm, cyclic |-> c, current_entry |-> k,
                      entries |-> [i \in 1 .. n |->
                                      with_description(IF i = 1 THEN nm ELSE <<A>>,
                                                       IF i = 1 THEN <<>> ELSE <<A>>)]] :
                        nm \in StoreNames, c \in BOOLEAN,
                        n \in 1 .. MaxStored, k \in 0 .. MaxStored}
    IN  {p \in plans_of : p.current_entry <= Len(p.entries)}

\* the --count arguments: numbers, a number that is no i32, and no number
CountArgs ==
    {<<"1">>, <<"-", "1">>, <<"x">>,
     <<"2", "1", "4", "7", "4", "8", "3", "6", "4", "7">>,
     <<"2", "1", "4", "7", "4", "8", "3", "6", "4", "8">>}

\* the --output arguments: none, or the path "o"
OutArgs == {<<>>, <<<<"o">>>>}

\* the orders in which read_dir can yield the files of the directory
Orders(S) == {ord \in [1 .. Cardinality(S) -> S] : \A f \in S : \E i \in DOMAIN ord : ord[i] = f}

InitCli ==
    /\ PlanIs(NoPlan)
    /\ built = FALSE
    /\ checked \in BOOLEAN
    /\ status = "ok"
    /\ result = [kind |-> "None"]
    /\ sink = NoSink
    /\ outputs = <<>>
    /\ dir \in BOOLEAN
    /\ \E D \in SUBSET {plan_file(nm) : nm \in StoreNames} :
          /\ ~dir => D = {}
          /\ files \in {fs \in [D -> {to_json(p) : p \in CliPlans}] :
                           \A f \in D : plan_file(from_json(fs[f]).name) = f}
    /\ last = [op |-> "start", name |-> <<>>, arg |-> <<>>, bin |-> "", order |-> <<>>]

\* the process ends with e
Ends(op, nm, arg, bin, ord, printed, e) ==
    /\ PlanBecomes(e.plan)
    /\ built' = (e.plan # NoPlan)
    /\ dir' = e.dir
    /\ files' = e.files
    /\ outputs' = e.outputs
    /\ result' = [kind |-> e.kind, lines |-> printed]
    /\ last' = [op |-> op, name |-> nm, arg |-> arg, bin |-> bin, order |-> ord]
    /\ UNCHANGED <<checked, status, sink>>

CliNext(nm, arg) ==
    Ends("next", nm, arg, "", <<>>, <<>>,
         cli_next(dir, files, outputs, nm, arg, TRUE, checked))

CliPrevious(nm, arg) ==
    Ends("previous", nm, arg, "", <<>>, <<>>,
         cli_next(dir, files, outputs, nm, arg, FALSE, checked))

CliListMain(ord) ==
    Ends("list", <<>>, <<>>, "main", ord, list_main(dir, files, ord),
         Ended("Ok", dir, files, outputs, NoPlan))

CliListReading(ord) ==
    Ends("list", <<>>, <<>>, "reading", ord, list_reading(dir, files, ord),
         Ended("Ok", dir, files, outputs, NoPlan))

CliExport(nm, out) ==
    Ends("export", nm, out, "", <<>>, <<>>, export(dir, files, outputs, nm, out))

NextCli ==
    \/ \E nm \in StoreNames, arg \in CountArgs : CliNext(nm, arg)
    \/ \E nm \in StoreNames, arg \in CountArgs : CliPrevious(nm, arg)
    \/ \E ord \in Orders(DOMAIN files) : CliListMain(ord)
    \/ \E ord \in Orders(DOMAIN files) : CliListReading(ord)

SpecCli == InitCli /\ [][NextCli]_vars

NextExport == \E nm \in StoreNames, out \in OutArgs : CliExport(nm, out)

SpecExport == InitCli /\ [][NextExport]_vars

(***************************************************************************)
(* Properties of the cursor machine (checked under Spec).                  *)
(***************************************************************************)
\* the true (non-negative) modulo of a + b by n > 0, without leaving i32
ModSum(a, b, n) == ((a % n) + (b % n)) % n

\* C1: in a cyclic plan with N >= 1 entries, next(delta) sets current_entry
\* to the true modulo (current_entry + delta) mod N, a value in [0, N), for
\* every integer delta.
C1_CyclicNextIsTrueModulo ==
    (last.op = "next" /\ last.pre_cyclic /\ len >= 1)
        => /\ ~last.panic
           /\ current_entry = ModSum(last.pre, last.arg, len)
           /\ current_entry \in 0 .. (len - 1)

\* C2: the ended state is reachable only when acyclic: in every state
\* reachable by next, previous and set_cyclic from a constructed plan (with
\* at least one entry), cyclic implies current_entry < N.
C2_EndedOnlyWhenAcyclic ==
    (cyclic /\ len >= 1) => (current_entry < len /\ ~is_ended)

\* C3: after any sequence of next, previous and set_cyclic calls on a
\* constructed plan with N entries, 0 <= current_entry <= N.
C3_PositionInRange ==
    0 <= current_entry /\ current_entry <= len

\* C3 witness: a cyclic next with a negative delta has put the cursor on the
\* upper end of the range.
C3_Witness ==
    /\ last.op = "next" /\ last.pre_cyclic /\ last.arg < 0 /\ ~last.panic
    /\ len = MaxEntries /\ current_entry = len

\* the position an acyclic next(delta) from position p must give when it
\* clamps raw = p + delta to [0, N], computed without leaving i32
Clamped(p, delta, n) ==
    IF delta < -p THEN 0
    ELSE IF delta >= n - p THEN n
    ELSE p + delta

\* C4: in an acyclic plan, next(delta) clamps raw = current_entry + delta:
\* 0 if raw < 0, exactly N (ended) if raw >= N, raw otherwise.
C4_AcyclicNextClamps ==
    (last.op = "next" /\ ~last.pre_cyclic /\ len >= 1)
        => /\ ~last.panic
           /\ current_entry = Clamped(last.pre, last.arg, len)
           /\ (current_entry = len <=> is_ended)

\* C5: next and previous are total on valid plans: for N >= 1 and every i32
\* delta (i32::MIN and i32::MAX included) they complete without arithmetic
\* overflow, division by zero or panic, and leave a valid position.
C5_NextPreviousTotal ==
    (last.op \in {"next", "previous"} /\ len >= 1)
        => /\ ~last.panic
           /\ ~last.overflow
           /\ status = "ok"
           /\ 0 <= current_entry /\ current_entry <= len

\* C9: in a cyclic plan with N entries, at any position p in [0, N) and for
\* any integer k, next(k) followed by next(N - (k mod N)) returns
\* current_entry to p.
C9_NextThenComplementReturns ==
    [][ ( /\ last.op = "next" /\ last.pre_cyclic /\ cyclic /\ len >= 1
          /\ last.pre < len /\ ~last.panic
          /\ last'.op = "next"
          /\ last'.arg = len - (last.arg % len) )
        => (~last'.panic /\ current_entry' = last.pre) ]_vars

\* C10: in a cyclic plan with N entries, moving by a whole number of cycles
\* is the identity: for every p in [0, N) and every integer m, next(m*N) and
\* previous(m*N) leave current_entry_number unchanged.
C10_WholeCyclesAreIdentity ==
    ( /\ last.op \in {"next", "previous"} /\ last.pre_cyclic /\ len >= 1
      /\ last.pre < len /\ last.arg % len = 0 )
        => (~last.panic /\ current_entry_number = last.pre + 1)

\* C11: set_cyclic(true) called while the plan is ended (current_entry = N)
\* resets current_entry to 0, so that afterwards current_entry_number = 1,
\* is_ended is false and is_cyclic is true.
C11_SetCyclicResetsEnded ==
    (last.op = "set_cyclic" /\ last.arg = 1 /\ last.pre = len)
        => /\ current_entry = 0
           /\ current_entry_number = 1
           /\ ~is_ended
           /\ is_cyclic

\* C17: is_ended is true if and only if current_entry = N, equivalently
\* current_entry_number > N; current_entry_number is current_entry + 1 and
\* lies in [1, N + 1], being N + 1 exactly in the ended state.
C17_EndedIffAtSentinel ==
    /\ is_ended <=> current_entry = len
    /\ is_ended <=> current_entry_number > len
    /\ current_entry_number = current_entry + 1
    /\ current_entry_number \in 1 .. (len + 1)
    /\ current_entry_number = len + 1 <=> is_ended

\* C17 witness: an acyclic next has carried a plan of MaxEntries entries
\* from its last entry to the ended state.
C17_Witness ==
    /\ last.op = "next" /\ ~last.pre_cyclic /\ ~last.panic
    /\ len = MaxEntries /\ last.pre = len - 1
    /\ is_ended /\ current_entry_number = len + 1

\* C18: current_entry() is None if and only if is_ended is true; otherwise
\* it is the entry at index current_entry of the entry list.
C18_CurrentEntryAbsentIffEnded ==
    /\ current_entry_ref = <<>> <=> is_ended
    /\ ~is_ended => current_entry_ref = <<entries[current_entry + 1]>>

\* C18 witness: after a previous, the cursor is on the last of MaxEntries
\* entries and current_entry() is that entry.
C18_Witness ==
    /\ last.op = "previous" /\ ~last.panic /\ last.pre = len
    /\ len = MaxEntries /\ current_entry = len - 1
    /\ current_entry_ref = <<entries[len]>>
    /\ entries[len] # entries[1]

\* C20: set_cyclic leaves the position alone except for the ended-to-cyclic
\* reset: set_cyclic(false) never changes current_entry, and set_cyclic(true)
\* does not change it when current_entry < N.
C20_SetCyclicKeepsPosition ==
    (last.op = "set_cyclic" /\ (last.arg = 0 \/ last.pre < len))
        => current_entry = last.pre

\* C20 witness: set_cyclic(false) on an ended plan with entries has left it
\* ended.
C20_Witness ==
    /\ last.op = "set_cyclic" /\ last.arg = 0
    /\ len >= 1 /\ last.pre = len /\ current_entry = len

\* C21: next, previous and set_cyclic never change the plan's entries
\* (count, order, titles, descriptions) or its name; next and previous never
\* change the cyclic flag.
C21_CursorOperationsKeepEntries ==
    [][ /\ last'.op \in {"next", "previous", "set_cyclic"}
           => (entries' = entries /\ name' = name)
        /\ last'.op \in {"next", "previous"} => cyclic' = cyclic ]_vars

\* C21 witness: a cyclic plan of MaxEntries entries has been moved by
\* previous and still has the name and the entries it was built with.
C21_Witness ==
    /\ last.op = "previous" /\ ~last.panic /\ current_entry # last.pre
    /\ last.pre_cyclic /\ cyclic
    /\ name = "test"
    /\ entries = [i \in 1 .. MaxEntries |-> new([j \in 1 .. i |-> "e"])]

\* C22: previous(delta) has exactly the effect of next(-delta), the negation
\* being the i32 negation of the build: the state after previous(delta) is
\* the state that next(-delta) produces from the same state.
C22_PreviousIsNextOfNegation ==
    last.op = "previous" =>
        LET r == IF last.arg # I32Min
                 THEN next_entry(last.pre, len, last.pre_cyclic, -last.arg, checked)
                 ELSE IF checked
                      THEN Panicked(TRUE)      \* -delta itself panics
                      ELSE next_entry(last.pre, len, last.pre_cyclic, I32Min, checked)
        IN  /\ last.panic = r.panic
            /\ current_entry = (IF r.panic THEN last.pre ELSE r.value)
            /\ cyclic = last.pre_cyclic
            /\ (status = "panic") = r.panic

\* C22 witness: previous with a positive delta has moved a cyclic plan
\* backwards past its first entry.
C22_Witness ==
    /\ last.op = "previous" /\ ~last.panic /\ last.pre_cyclic
    /\ last.arg > 0 /\ last.arg < len
    /\ last.pre < last.arg
    /\ current_entry = last.pre - last.arg + len

(***************************************************************************)
(* Properties of the text machine (checked under SpecText).                *)
(***************************************************************************)
\* C6: every successfully constructed Plan, whether built by from_text or by
\* from_entries, has a non-empty entry list; an empty entry list never
\* yields a Plan.
C6_BuiltPlanIsNonEmpty ==
    built => Len(entries) > 0

\* C7: to_text surfaces the first I/O failure of the sink: if any write or
\* flush to the sink fails while the plan is written (the flush of the
\* buffered data at the end included), to_text returns an Io error, never Ok.
C7_ToTextSurfacesSinkFailure ==
    (last.op = "to_text" /\ sink.failed) => result.kind = "Io"

\* from_text has read back everything to_text(p) produced on a sound sink
ReadBackWhole == last.op = "read_back" /\ sink.used /\ ~sink.failed

\* C8 (as claimed): for every Plan p, from_text applied to the bytes written
\* by to_text(p) succeeds and yields p's entries, in order.  (Stated for the
\* plans with at least one entry; the empty plan is the subject of C6.)
C8_RoundTripAnyPlan ==
    (ReadBackWhole /\ sink.written # <<>>)
        => (result.kind = "Ok" /\ entries = sink.written)

\* a string the text format can carry on one line: no line feed, and
\* neither its first nor its last character is whitespace
Carried(str) ==
    /\ \A i \in 1 .. Len(str) : str[i] # NL
    /\ str # <<>> => (~is_whitespace(str[1]) /\ ~is_whitespace(str[Len(str)]))

WellFormed(es) ==
    /\ es # <<>>
    /\ \A i \in 1 .. Len(es) :
          /\ es[i].title # <<>>
          /\ Carried(es[i].title)
          /\ Carried(es[i].description)

\* C8 (amended): for every Plan p with at least one entry, whose titles are
\* non-empty, and whose titles and descriptions hold no line feed and neither
\* start nor end with whitespace, from_text applied to the bytes written by
\* to_text(p) succeeds and yields p's entries, in order.
C8_RoundTripWellFormed ==
    (ReadBackWhole /\ WellFormed(sink.written))
        => (result.kind = "Ok" /\ entries = sink.written)

\* C8 witness: a well-formed plan of two entries, the first with a
\* description, has been written and read back.
C8_Witness ==
    /\ ReadBackWhole /\ WellFormed(sink.written)
    /\ Len(sink.written) = 2
    /\ sink.written[1].description # <<>>
    /\ Len(sink.bytes) > BufCap

(***************************************************************************)
(* A reading of input lines that does not use the trimming operators of    *)
(* the model: the positions of a line's non-whitespace characters.         *)
(***************************************************************************)
Inked(l) == {i \in 1 .. Len(l) : l[i] \notin {" ", "\t", "\n"}}
FirstInk(l) == CHOOSE i \in Inked(l) : \A j \in Inked(l) : i <= j
LastInk(l) == CHOOSE i \in Inked(l) : \A j \in Inked(l) : i >= j
IsBlank(l) == Inked(l) = {}
IsTitleLine(l) == 1 \in Inked(l)
IsIndented(l) == ~IsBlank(l) /\ ~IsTitleLine(l)
RightTrimmed(l) == IF IsBlank(l) THEN <<>> ELSE SubSeq(l, 1, LastInk(l))
Trimmed(l) == IF IsBlank(l) THEN <<>> ELSE SubSeq(l, FirstInk(l), LastInk(l))

\* from_text has just been called (directly, or on the output of to_text)
\* on the lines InputLines
ParsedText == last.op \in {"from_text", "read_back"}
InputLines == lines(last.input)

\* line i is indented and no entry is in progress when it is read: it is the
\* first line or follows a blank line
Orphan(ls, i) == IsIndented(ls[i]) /\ (i = 1 \/ IsBlank(ls[i - 1]))

\* C12: from_text fails with a TextFormat error naming the 1-based line
\* number whenever an indented line is read while no entry is in progress
\* (the first such line stops the reading); an input whose first line is
\* indented fails at line 1; no plan is returned.
C12_OrphanDescriptionFails ==
    ParsedText =>
        LET ls == InputLines IN
        /\ \A i \in 1 .. Len(ls) :
              (Orphan(ls, i) /\ \A j \in 1 .. (i - 1) : ~Orphan(ls, j))
                  => result = [kind |-> "TextFormat", line |-> i]
        /\ (ls # <<>> /\ IsIndented(ls[1]))
              => result = [kind |-> "TextFormat", line |-> 1]
        /\ (last.op = "from_text" /\ \E i \in 1 .. Len(ls) : Orphan(ls, i))
              => ~built

\* C12 witness: from_text has stopped at an indented third line that
\* follows an entry closed by a blank line.
C12_Witness ==
    /\ last.op = "from_text"
    /\ Len(InputLines) >= 3
    /\ IsTitleLine(InputLines[1]) /\ IsBlank(InputLines[2])
    /\ IsIndented(InputLines[3])
    /\ result = [kind |-> "TextFormat", line |-> 3]
    /\ ~built

\* C13: from_text fails with the TextFormat error "cannot construct an empty
\* plan" (line 0 of the model) exactly when the input contains no title line
\* and no error occurred earlier; an empty or blank-only input never
\* produces a plan.
C13_EmptyPlanRejected ==
    ParsedText =>
        LET ls == InputLines IN
        /\ result = [kind |-> "TextFormat", line |-> 0]
              <=> \A i \in 1 .. Len(ls) : ~IsTitleLine(ls[i]) /\ ~Orphan(ls, i)
        /\ (\A i \in 1 .. Len(ls) : IsBlank(ls[i])) => result.kind # "Ok"

\* C13 witness: from_text has refused an input of several lines holding
\* nothing but whitespace.
C13_Witness ==
    /\ last.op = "from_text"
    /\ Len(InputLines) >= 2
    /\ \A i \in 1 .. Len(InputLines) : IsBlank(InputLines[i])
    /\ \E i \in 1 .. Len(InputLines) : InputLines[i] # <<>>
    /\ result = [kind |-> "TextFormat", line |-> 0]
    /\ ~built

\* the number of indented lines that follow line p without interruption
RunLen(ls, p) ==
    CHOOSE j \in 0 .. (Len(ls) - p) :
        /\ \A m \in 1 .. j : IsIndented(ls[p + m])
        /\ (p + j < Len(ls)) => ~IsIndented(ls[p + j + 1])

RECURSIVE SpaceJoined(_)
SpaceJoined(strs) ==
    IF strs = <<>> THEN <<>>
    ELSE IF Len(strs) = 1 THEN strs[1]
    ELSE strs[1] \o <<" ">> \o SpaceJoined(Tail(strs))

\* the number of the entry that the title on line p opens
EntryOfLine(ls, p) == Cardinality({q \in 1 .. p : IsTitleLine(ls[q])})

\* the lines with the indentation of every indented line replaced by c
Reindented(ls, c) ==
    [i \in 1 .. Len(ls) |->
        IF IsIndented(ls[i])
        THEN c \o SubSeq(ls[i], FirstInk(ls[i]), Len(ls[i]))
        ELSE ls[i]]

\* C14: the description of an entry is the left- and right-trimmed contents
\* of the consecutive indented lines that follow its title, joined in order
\* by exactly one space; the amount and kind of indentation do not affect
\* the result.
C14_DescriptionIsJoinedLines ==
    (ParsedText /\ result.kind = "Ok") =>
        LET ls == InputLines IN
        /\ Len(entries) = EntryOfLine(ls, Len(ls))
        /\ \A p \in 1 .. Len(ls) :
              IsTitleLine(ls[p]) =>
                  entries[EntryOfLine(ls, p)].description
                      = SpaceJoined([m \in 1 .. RunLen(ls, p) |-> Trimmed(ls[p + m])])
        /\ \A c \in {<<" ">>, <<"\t">>, <<"\t", " ", " ">>} :
              from_text_loop(Reindented(ls, c), 0, <<>>, <<>>) = Ok(entries)

\* C14 witness: a description has been put together from two lines, one
\* indented with a space and one with a tab.
C14_Witness ==
    /\ last.op = "from_text" /\ result.kind = "Ok"
    /\ \E p \in 1 .. Len(InputLines) :
          /\ IsTitleLine(InputLines[p])
          /\ RunLen(InputLines, p) >= 2
          /\ InputLines[p + 1][1] # InputLines[p + 2][1]
          /\ Len(entries[EntryOfLine(InputLines, p)].description) >= 3

\* C15: on success the plan holds exactly one entry for each non-blank line
\* whose first character is not whitespace, in source order, each with that
\* line, right-trimmed, as its title; a title line finalizes the entry in
\* progress and the last entry is finalized at the end of the input.
C15_OneEntryPerTitleLine ==
    (ParsedText /\ result.kind = "Ok") =>
        LET titles == SelectSeq(InputLines, IsTitleLine) IN
        /\ Len(entries) = Len(titles)
        /\ \A i \in 1 .. Len(titles) : entries[i].title = RightTrimmed(titles[i])

\* C15 witness: two entries have been read, the first from a title line
\* with trailing whitespace and closed by the second title line, the second
\* closed by the end of the input.
C15_Witness ==
    /\ last.op = "from_text" /\ result.kind = "Ok"
    /\ Len(entries) = 2
    /\ LET ls == InputLines IN
       /\ IsTitleLine(ls[1]) /\ ls[1] # RightTrimmed(ls[1])
       /\ IsTitleLine(ls[Len(ls)])
       /\ \E i \in 1 .. Len(ls) : IsIndented(ls[i])
       /\ \A i \in 1 .. Len(ls) : ~IsBlank(ls[i])

\* what the text format prescribes for a list of entries
RECURSIVE Rendered(_)
Rendered(es) ==
    IF es = <<>> THEN <<>>
    ELSE LET e == Head(es) IN
         e.title \o <<"\n">>
         \o (IF e.description # <<>>
             THEN <<" ", " ", " ", " ">> \o e.description \o <<"\n">>
             ELSE <<>>)
         \o Rendered(Tail(es))

Described(es) == Cardinality({i \in 1 .. Len(es) : es[i].description # <<>>})
LineCount(bytes) == Cardinality({i \in 1 .. Len(bytes) : bytes[i] = "\n"})
IsPrefix(a, b) == Len(a) <= Len(b) /\ a = SubSeq(b, 1, Len(a))

NoLineFeeds(es) ==
    \A i \in 1 .. Len(es) :
        /\ \A j \in 1 .. Len(es[i].title) : es[i].title[j] # "\n"
        /\ \A j \in 1 .. Len(es[i].description) : es[i].description[j] # "\n"

\* C16 (as claimed): to_text writes, for each entry in order, the title and
\* a newline and, if and only if the description is non-empty, a line of
\* exactly four spaces, the description and a newline, and nothing else; the
\* output has N + (number of entries with a non-empty description) lines.
\* (Stated for the calls whose sink took every write.)
C16_ToTextLinesAnyPlan ==
    (last.op = "to_text" /\ ~sink.failed) =>
        /\ sink.bytes = Rendered(sink.written)
        /\ LineCount(sink.bytes) = Len(sink.written) + Described(sink.written)

\* C16 (amended): to_text writes, for each entry in order, the title and a
\* newline and, if and only if the description is non-empty, a line of
\* exactly four spaces, the description and a newline, and nothing else (a
\* sink that fails holds a prefix of that); if no title and no description
\* contains a line feed, the complete output has N + (number of entries with
\* a non-empty description) lines.
C16_ToTextLines ==
    last.op = "to_text" =>
        /\ IsPrefix(sink.bytes, Rendered(sink.written))
        /\ ~sink.failed => sink.bytes = Rendered(sink.written)
        /\ (~sink.failed /\ NoLineFeeds(sink.written))
              => LineCount(sink.bytes) = Len(sink.written) + Described(sink.written)

\* C16 witness: a plan of two entries without line feeds, exactly one of
\* them with a description and both with a title, has been written in
\* full: three lines.
C16_Witness ==
    /\ last.op = "to_text" /\ ~sink.failed
    /\ Len(sink.written) = 2 /\ Described(sink.written) = 1
    /\ NoLineFeeds(sink.written)
    /\ \A i \in 1 .. 2 : sink.written[i].title # <<>>
    /\ LineCount(sink.bytes) = 3

\* C19: every plan returned by from_text or from_entries starts with
\* current_entry = 0 and cyclic = false and carries the name the caller
\* supplied, unchanged.
C19_NewPlanStartsAtFirstEntry ==
    (last.op \in {"from_entries", "from_text"} /\ result.kind = "Ok")
        => /\ current_entry = 0
           /\ ~cyclic
           /\ name = last.name

\* C19 witness: from_text has returned a plan of two entries under the
\* second of the names.
C19_Witness ==
    /\ last.op = "from_text" /\ result.kind = "Ok" /\ built
    /\ Len(entries) = 2
    /\ last.name = "War and Peace" /\ name = "War and Peace"
    /\ current_entry = 0 /\ ~cyclic

\* ls with the line b put in before line p (p = Len(ls) + 1: at the end)
WithLine(ls, p, b) == SubSeq(ls, 1, p - 1) \o <<b>> \o SubSeq(ls, p, Len(ls))
WithoutLine(ls, p) == SubSeq(ls, 1, p - 1) \o SubSeq(ls, p + 1, Len(ls))

\* a place where C23 lets a blank line come or go: the start of the input,
\* its end, or immediately before a title line
BeforeTitleOrAtEdge(ls, p) ==
    p = 1 \/ p = Len(ls) + 1 \/ (p <= Len(ls) /\ IsTitleLine(ls[p]))

\* reading the lines ls gives what the last from_text call gave: the same
\* kind of result and, on success, the same entries
ReadsTheSame(ls) ==
    LET r == from_text_loop(ls, 0, <<>>, <<>>)
    IN  /\ r.kind = result.kind
        /\ result.kind = "Ok" => r.entries = entries

\* C23: blank lines only separate entries and are not required: inserting or
\* removing blank or whitespace-only lines immediately before a title line,
\* or at the start or the end of the input, does not change the entries
\* from_text returns, and two directly adjacent title lines yield two
\* entries.
C23_BlankLinesOnlySeparate ==
    ParsedText =>
        LET ls == InputLines IN
        /\ \A p \in 1 .. (Len(ls) + 1) :
              BeforeTitleOrAtEdge(ls, p) =>
                  \A b \in {<<>>, <<" ">>, <<"\t", " ">>} :
                      ReadsTheSame(WithLine(ls, p, b))
        /\ \A p \in 1 .. Len(ls) :
              (IsBlank(ls[p]) /\ (p = 1 \/ BeforeTitleOrAtEdge(ls, p + 1)))
                  => ReadsTheSame(WithoutLine(ls, p))
        /\ result.kind = "Ok" =>
              \A p \in 1 .. (Len(ls) - 1) :
                  (IsTitleLine(ls[p]) /\ IsTitleLine(ls[p + 1]))
                      => LET i == EntryOfLine(ls, p) IN
                         /\ i + 1 <= Len(entries)
                         /\ entries[i] = [title |-> RightTrimmed(ls[p]),
                                          description |-> <<>>]
                         /\ entries[i + 1].title = RightTrimmed(ls[p + 1])

\* C23 witness: from_text has read an entry with a description, a
\* whitespace-only line, and a second entry.
C23_Witness ==
    /\ last.op = "from_text" /\ result.kind = "Ok"
    /\ Len(InputLines) = 3
    /\ IsTitleLine(InputLines[1])
    /\ IsBlank(InputLines[2]) /\ InputLines[2] # <<>>
    /\ IsTitleLine(InputLines[3])
    /\ Len(entries) = 2

\* C28: a blank line terminates the entry in progress, so an indented line
\* that directly follows a blank or whitespace-only line fails with a
\* TextFormat error at that line's 1-based number even when title lines
\* occur earlier in the input; the entries parsed before it are discarded
\* and no plan is returned.
C28_BlankLineClosesEntry ==
    ParsedText =>
        LET ls == InputLines IN
        \A i \in 2 .. Len(ls) :
            ( /\ IsIndented(ls[i]) /\ IsBlank(ls[i - 1])
              /\ \E j \in 1 .. (i - 1) : IsTitleLine(ls[j])
              /\ \A j \in 1 .. (i - 1) : ~Orphan(ls, j) )
                => /\ result = [kind |-> "TextFormat", line |-> i]
                   /\ last.op = "from_text"
                         => (~built /\ PlanIs(from_entries("", <<>>)))

\* C28 witness: a title line, a whitespace-only line and a line indented
\* with a tab: from_text has failed at line 3 and there is no plan.
C28_Witness ==
    /\ last.op = "from_text"
    /\ Len(InputLines) = 3
    /\ IsTitleLine(InputLines[1])
    /\ InputLines[2] = <<" ", " ">>
    /\ IsIndented(InputLines[3]) /\ InputLines[3][1] = "\t"
    /\ result = [kind |-> "TextFormat", line |-> 3]
    /\ ~built /\ entries = <<>>

\* C29: parse-write-parse stability: for every input text on which
\* from_text succeeds with plan p, from_text applied to what to_text(p)
\* writes succeeds and returns the same ordered (title, description) pairs
\* as p, whatever the indentation, the placement of blank lines and the
\* multi-line descriptions of the text.
C29_ParseWriteParse ==
    (ReadBackWhole /\ last.origin = "from_text")
        => (result.kind = "Ok" /\ entries = sink.written)

\* C29 witness: a plan read by from_text, with a description joined from two
\* lines, has been written and read back.
C29_Witness ==
    /\ ReadBackWhole /\ last.origin = "from_text"
    /\ result.kind = "Ok"
    /\ \E i \in 1 .. Len(sink.written) :
          \E j \in 1 .. Len(sink.written[i].description) :
              sink.written[i].description[j] = " "

\* C30: every entry of a plan returned by from_text has a non-empty title
\* whose first character is not whitespace and that has no trailing
\* whitespace, and a description that is either empty or has no leading or
\* trailing whitespace and contains no line break.
C30_EntriesAreSingleLines ==
    (ParsedText /\ result.kind = "Ok") =>
        \A i \in 1 .. Len(entries) :
            LET t == entries[i].title
                d == entries[i].description
            IN  /\ t # <<>>
                /\ 1 \in Inked(t) /\ Len(t) \in Inked(t)
                /\ d # <<>> => (1 \in Inked(d) /\ Len(d) \in Inked(d))
                /\ \A j \in 1 .. Len(d) : d[j] # "\n"

\* C30 witness: from_text has returned an entry read from a title line with
\* trailing whitespace and an indented line with trailing whitespace.
C30_Witness ==
    /\ last.op = "from_text" /\ result.kind = "Ok"
    /\ Len(InputLines) >= 2
    /\ IsTitleLine(InputLines[1]) /\ InputLines[1] # RightTrimmed(InputLines[1])
    /\ IsIndented(InputLines[2]) /\ InputLines[2] # RightTrimmed(InputLines[2])
    /\ entries[1].description # <<>>

(***************************************************************************)
(* Properties of the store machine (checked under SpecFiles).              *)
(***************************************************************************)
\* a plan of the name nm is stored in the directory
StoredUnder(nm) == \E f \in DOMAIN files : from_json(files[f]).name = nm

\* C24: add_plan fails with PlanAlreadyExists when a plan file for that name
\* is already stored, and in that case the stored plan is left unchanged;
\* overwrite_plan on the same name succeeds and replaces it.
C24_AddRefusesOverwriteReplaces ==
    [][ /\ (last'.op = "add_plan" /\ plan_file(last'.name) \in DOMAIN files)
           => (result'.kind = "PlanAlreadyExists" /\ files' = files)
        /\ last'.op = "overwrite_plan"
           => /\ result'.kind = "Ok"
              /\ plan_file(last'.name) \in DOMAIN files'
              /\ from_json(files'[plan_file(last'.name)]) = ThePlan'
              /\ \A f \in DOMAIN files' \ {plan_file(last'.name)} :
                    f \in DOMAIN files /\ files'[f] = files[f] ]_vars

\* C24 witness: add_plan has been refused for a plan whose name is stored
\* with other contents, and the stored plan is still the other one.
C24_Witness ==
    /\ last.op = "add_plan" /\ result.kind = "PlanAlreadyExists"
    /\ plan_file(name) \in DOMAIN files
    /\ from_json(files[plan_file(name)]).name = name
    /\ from_json(files[plan_file(name)]) # ThePlan

\* C25: remove_plan fails with PlanDoesNotExist when no plan of that name is
\* stored, and changes nothing; after a successful remove_plan(name),
\* read_plan(name) fails with PlanDoesNotExist and add_plan for that name
\* succeeds again.  (Stated for an existing plans directory.)
C25_RemoveMissingFails ==
    [][ /\ (last'.op = "remove_plan" /\ dir /\ ~StoredUnder(last'.name))
           => (result'.kind = "PlanDoesNotExist" /\ files' = files /\ dir' = dir)
        /\ (last.op = "remove_plan" /\ result.kind = "Ok" /\ last'.name = last.name)
           => /\ last'.op = "read_plan" => result'.kind = "PlanDoesNotExist"
              /\ last'.op = "add_plan" => result'.kind = "Ok" ]_vars

\* C26: store round trip: after add_plan(p) or overwrite_plan(p) succeeds,
\* read_plan(p.name()) returns a plan equal to p in all four fields, until
\* the next add, overwrite or remove of that name.
C26_StoreRoundTrip ==
    [][ /\ (last'.op \in {"add_plan", "overwrite_plan"} /\ result'.kind = "Ok")
           => LET r == read_plan(dir', files', last'.name)
              IN  r.kind = "Ok" /\ r.plan = ThePlan'
        /\ \A nm \in StoreNames :
              LET r == read_plan(dir, files, nm) IN
              ( /\ r.kind = "Ok" /\ r.plan.name = nm
                /\ ~( /\ last'.op \in {"add_plan", "overwrite_plan", "remove_plan"}
                      /\ last'.name = nm) )
                 => LET r2 == read_plan(dir', files', nm)
                    IN  r2.kind = "Ok" /\ r2.plan = r.plan ]_vars

\* C27: plans with distinct names are stored independently: for any two
\* different names A and B, add_plan, overwrite_plan or remove_plan on A
\* never changes the result of read_plan(B), and add_plan(A) never fails
\* with PlanAlreadyExists because only B is stored; also for names that
\* contain '.'.  (Stated for an existing plans directory.)
C27_DistinctNamesIndependent ==
    [][ /\ \A B \in StoreNames :
              ( /\ dir
                /\ last'.op \in {"add_plan", "overwrite_plan", "remove_plan"}
                /\ last'.name # B )
                 => LET r == read_plan(dir, files, B)
                        r2 == read_plan(dir', files', B)
                    IN  /\ r2.kind = r.kind
                        /\ r.kind = "Ok" => r2.plan = r.plan
        /\ (last'.op = "add_plan" /\ result'.kind = "PlanAlreadyExists")
              => StoredUnder(last'.name) ]_vars

(***************************************************************************)
(* Properties of the command machines (SpecCli, SpecExport).               *)
(***************************************************************************)
\* the status line owed to the stored plan p
StatusLineOf(p) ==
    IF p.current_entry + 1 > Len(p.entries)
    THEN <<p.name, "(end of plan)">>
    ELSE <<p.name, "(entry " \o ToString(p.current_entry + 1) \o " of "
                   \o ToString(Len(p.entries)) \o ")">>

\* C31 (as claimed): list prints exactly one status line per stored plan,
\* "(end of plan)" when current_entry_number() > len() and "(entry c of n)"
\* otherwise, and main.rs and bin/reading.rs print the same lines for the
\* same stored plans.
C31_ListOneLinePerPlan ==
    last.op = "list" =>
        /\ Len(result.lines) = Cardinality(DOMAIN files)
        /\ \A i \in DOMAIN last.order :
              result.lines[i] = StatusLineOf(from_json(files[last.order[i]]))
        /\ list_main(dir, files, last.order) = list_reading(dir, files, last.order)

\* what the named plan file holds, and whether read_plan can read it
Readable(nm) == dir /\ plan_file(nm) \in DOMAIN files
StoredAt(fs, nm) == from_json(fs[plan_file(nm)])

\* C32: next / previous read the named plan, move it once and save it: the
\* stored plan differs from the one read in current_entry only, which is
\* what next(count) / previous(count) makes of it, no other file changes,
\* and if the count does not parse or the plan cannot be read the command
\* fails and the store is as it was.
C32_NextPreviousChangeOnlyCursor ==
    [][ last'.op \in {"next", "previous"} =>
          LET nm == last'.name
              count == parse_i32(last'.arg)
          IN  /\ outputs' = outputs
              /\ dir' = dir
              /\ DOMAIN files' = DOMAIN files
              /\ \A f \in DOMAIN files : f # plan_file(nm) => files'[f] = files[f]
              /\ (~count.ok \/ ~Readable(nm))
                    => (result'.kind # "Ok" /\ files' = files)
              /\ result'.kind = "Ok" =>
                    LET before == StoredAt(files, nm)
                        after == StoredAt(files', nm)
                        moved == IF last'.op = "next"
                                 THEN next_entry(before.current_entry, Len(before.entries),
                                                 before.cyclic, count.value, checked)
                                 ELSE previous_entry(before.current_entry, Len(before.entries),
                                                     before.cyclic, count.value, checked)
                    IN  /\ after.name = before.name
                        /\ after.cyclic = before.cyclic
                        /\ after.entries = before.entries
                        /\ after.current_entry = moved.value
                        /\ after = ThePlan'
              /\ (count.ok /\ Readable(nm) /\ result'.kind # "Ok")
                    => (result'.kind = "Panic" /\ files' = files) ]_vars

\* a next command that moved a stored cyclic plan, asked for under a name
\* other than the plan's
C32_Witness ==
    /\ last.op = "next"
    /\ result.kind = "Ok"
    /\ last.arg = <<"1">>
    /\ last.name # name
    /\ Readable(last.name)
    /\ StoredAt(files, last.name) = ThePlan
    /\ ~cyclic
    /\ current_entry = 1

\* C33: export never overwrites an existing file: every file that exists
\* keeps its contents; if the output path exists the command fails and
\* writes nothing; otherwise it creates the file with the text form of the
\* plan; the store is not touched.
C33_ExportNeverOverwrites ==
    [][ last'.op = "export" =>
          LET nm == last'.name
              path == IF last'.arg # <<>> THEN last'.arg[1]
                      ELSE StoredAt(files, nm).name \o <<".", "plan">>
          IN  /\ dir' = dir /\ files' = files
              /\ \A q \in DOMAIN outputs :
                    q \in DOMAIN outputs' /\ outputs'[q] = outputs[q]
              /\ ~Readable(nm) => (result'.kind # "Ok" /\ outputs' = outputs)
              /\ (Readable(nm) /\ path \in DOMAIN outputs)
                    => (result'.kind = "OutputExists" /\ outputs' = outputs)
              /\ (Readable(nm) /\ path \notin DOMAIN outputs)
                    => /\ result'.kind = "Ok"
                       /\ DOMAIN outputs' = DOMAIN outputs \cup {path}
                       /\ outputs'[path] = Rendered(StoredAt(files, nm).entries) ]_vars

\* an export refused because its output file exists, the file holding the
\* text of another plan
C33_Witness ==
    /\ last.op = "export"
    /\ result.kind = "OutputExists"
    /\ last.arg # <<>>
    /\ last.arg[1] \in DOMAIN outputs
    /\ Readable(last.name)
    /\ outputs[last.arg[1]] # Rendered(StoredAt(files, last.name).entries)

=============================================================================
